---- MODULE Spec2Model ----
(***************************************************************************)
(* First-time pass rate scraper (src/scraper.py): the GitHub and GitLab    *)
(* adapters, their verdict reduction and the result record; the page walk  *)
(* of the listing functions; _make_request; run() and get_results().       *)
(*                                                                         *)
(* Spec: one adapter call (_process_github or _process_gitlab) as a        *)
(* sequential process whose position (pc) advances at every HTTP request:  *)
(* the value _make_request returns (None after exhausted retries, or a     *)
(* response with its JSON body) is the input of the step that consumes it. *)
(* A response is a record [ok, json]; ok = FALSE stands for None.          *)
(* ftpr is kept in hundredths of a percent (33.33 is 3333).                *)
(* SpecResult: the result record, from the counters the loop leaves.       *)
(* SpecWalk, FairWalk: _get_github_prs / _get_gitlab_mrs step by step.     *)
(* SpecRequest: one _make_request call, one loop iteration per step.       *)
(* SpecRun: a Scraper object under run() and get_results() calls.          *)
(***************************************************************************)
EXTENDS Integers, Sequences, FiniteSets, TLC

\* ------------------------------------------------------------------ bounds
MaxPRs == 3
MaxChecks == 2
MaxCommits == 3
MaxPages == 1
MaxTotal == 32
MaxWalkPages == 3
MaxRetryAfter == 2
MaxWait == 2
MaxRepos == 2
MaxCalls == 2

\* --------------------------------------------------------------- constants
PR_LIMIT == 100
per_page == 100

retry_count == 3
DefaultRetryAfter == 60

NULL == "null"
ABSENT == "absent"
MALFORMED == "malformed"
MERGED_TS == "2024-01-01T00:00:00Z"

\* The i-th check or job of a commit is named CheckNames[i].
CheckNames == <<"build", "test", "lint", "deploy">>
Conclusions == {"success", "failure", "cancelled", NULL}
CombinedStates == {"success", "failure", "pending", ABSENT}
JobStatuses == {"success", "failed", "canceled"}
Shas == {"c1", "c2", "c3"}
PipelineIds == {"p7"}

\* Sizes of the pages a listing endpoint serves: at most per_page items.
PageSizes == {0, 37, per_page - 1, per_page}

\* ----------------------------------------------------------------- helpers
SeqsUpTo(S, n) == UNION {[1..k -> S] : k \in 0..n}
Range(f) == {f[i] : i \in DOMAIN f}

\* --------------------------------------------------- API responses (inputs)
NoResponse == [ok |-> FALSE, json |-> <<>>]

\* GET /repos/{repo}/pulls?state=closed: closed PRs, newest first.
PullRequests == [number : 1..MaxPRs, merged_at : {NULL, MERGED_TS}]
PrBatches ==
    {b \in SeqsUpTo(PullRequests, MaxPRs) :
        \A i \in 1..Len(b) : b[i].number = Len(b) + 1 - i}
PrListResponses == [ok : {TRUE}, json : PrBatches] \cup {NoResponse}
PrSources == [1..MaxPages -> PrListResponses]

\* GET .../pulls/{n}/commits?per_page=1&page=1: at most one commit.
GithubCommitResponses ==
    [ok : {TRUE}, json : SeqsUpTo([sha : Shas], 1)] \cup {NoResponse}

\* GET .../commits/{sha}/check-runs: a body without check_runs reads as [].
CheckRuns ==
    {c \in SeqsUpTo([name : Range(CheckNames), conclusion : Conclusions], MaxChecks) :
        \A i \in 1..Len(c) : c[i].name = CheckNames[i]}
CheckRunsResponses ==
    [ok : {TRUE}, json : [check_runs : CheckRuns]]
        \cup {[ok |-> FALSE, json |-> [check_runs |-> <<>>]]}

\* GET .../commits/{sha}/status: empty = TRUE is the falsy body {}.
StatusResponses ==
    [ok : {TRUE}, json : [empty : {FALSE}, state : CombinedStates]]
        \cup {[ok |-> TRUE, json |-> [empty |-> TRUE, state |-> ABSENT]],
              [ok |-> FALSE, json |-> [empty |-> TRUE, state |-> ABSENT]]}

\* GET /projects/{id}/merge_requests?state=merged: merged MRs, newest first.
MergeRequests == [iid : 1..MaxPRs]
MrBatches ==
    {b \in SeqsUpTo(MergeRequests, MaxPRs) :
        \A i \in 1..Len(b) : b[i].iid = Len(b) + 1 - i}
MrListResponses == [ok : {TRUE}, json : MrBatches] \cup {NoResponse}
MrSources == [1..MaxPages -> MrListResponses]

\* GET .../merge_requests/{iid}/commits?per_page=100: newest first.
GitlabCommitResponses ==
    [ok : {TRUE}, json : SeqsUpTo([id : Shas], MaxCommits)] \cup {NoResponse}

\* GET .../pipelines?sha=..&per_page=1: at most one pipeline.
PipelineResponses ==
    [ok : {TRUE}, json : SeqsUpTo([id : PipelineIds], 1)] \cup {NoResponse}

\* GET .../pipelines/{id}/jobs
Jobs ==
    {j \in SeqsUpTo([name : Range(CheckNames), status : JobStatuses], MaxChecks) :
        \A i \in 1..Len(j) : j[i].name = CheckNames[i]}
JobsResponses == [ok : {TRUE}, json : Jobs] \cup {NoResponse}

\* ------------------------------------------------------------------- state
\* requests: the HTTP requests issued so far, in order (kind, PR/MR or page).
\* response: the value the last _make_request call returned.
\* observed: per processed PR/MR, where its iteration ended and its verdict.
\* initial_sha, pipeline_id, all_passed, details and response are locals of
\* one loop iteration (response of the callee): each is assigned before it
\* is read, and the model clears them when the iteration ends.
VARIABLES platform, pc, prs, mrs, idx, total, passes, failures, initial_sha,
          pipeline_id, all_passed, details, requests, response, observed, result

\* source: the pages the listing endpoint serves, until the listing has been
\* taken (the endpoint is not asked again); page: the walker's page.
VARIABLES source, page

\* One _make_request call: attempt is the loop variable, replies what each
\* GET met, sleeps the time.sleep calls (why, secs), now the clock
\* int(time.time()) reads, outcome how the call ended.
VARIABLES attempt, replies, sleeps, now, outcome

\* The Scraper object: repos and results are its fields, repo_idx the position
\* of run()'s for loop, processed how each config of the current run() call
\* ended, returned the list last handed to the caller, calls the run() calls
\* made, printed what the last print_summary() call wrote to standard output.
VARIABLES repos, repo_idx, results, processed, returned, calls, printed

walkVars == <<source, page>>
reqVars == <<attempt, replies, sleeps, now, outcome>>
runVars == <<repos, repo_idx, results, processed, returned, calls, printed>>
adapterVars == <<platform, prs, mrs, idx, total, passes, failures, initial_sha,
                 pipeline_id, all_passed, details, requests, response, observed,
                 result>>

vars == <<platform, pc, prs, mrs, idx, total, passes, failures, initial_sha,
          pipeline_id, all_passed, details, requests, response, observed, result,
          walkVars, reqVars, runVars>>

NewDetails == [checks |-> <<>>, total |-> 0, passed |-> 0, failed |-> 0]
NewJobDetails == [jobs |-> <<>>, total |-> 0, passed |-> 0, failed |-> 0]
NoResult == [repo_name |-> NULL, platform |-> NULL, total_merged |-> 0,
             first_time_passes |-> 0, first_time_failures |-> 0, ftpr |-> 0]

Request(kind, unit) == [kind |-> kind, unit |-> unit]
Observation(unit, ended, ok, found) ==
    [unit |-> unit, ended |-> ended, all_passed |-> ok, found |-> found]

\* ---------------------------------------------------------- pure functions
\* Mutant of Round2: the quotient is truncated instead of rounded.
Round2Truncate(num, den) == (10000 * num) \div den

\* round(x, 2) of x = 100 * num / den, in hundredths: nearest, ties to even.
Round2(num, den) ==
    LET q == (10000 * num) \div den
        r == (10000 * num) % den
    IN  IF 2 * r < den THEN q
        ELSE IF 2 * r > den THEN q + 1
        ELSE IF q % 2 = 0 THEN q ELSE q + 1

\* Lines 128 and 380.
Ftpr(p, t) == IF t > 0 THEN Round2(p, t) ELSE 0

\* Lines 132-139 and 384-391.
MakeResult(label, t, p, f) ==
    [repo_name |-> "repo", platform |-> label, total_merged |-> t,
     first_time_passes |-> p, first_time_failures |-> f, ftpr |-> Ftpr(p, t)]

\* Mutant of WithinLimit: the cap admits one page too many.
WithinLimitInclusive(pg) == (pg - 1) * per_page <= PR_LIMIT

\* Lines 157 and 409: the loop condition of the page walk.
WithinLimit(pg) == (pg - 1) * per_page < PR_LIMIT

\* Mutant of NextPage: the page number is not advanced.
NextPageStuck(pg) == pg

\* Lines 179 and 431.
NextPage(pg) == pg + 1

\* What the listing endpoint answers for page pg: nothing past the last page.
Served(served, pg) == IF pg \in DOMAIN served THEN served[pg] ELSE NoResponse

\* Lines 170 and 422: the walk ends on None and on an empty page.
NoItems(resp) == ~resp.ok \/ resp.json = <<>>

\* _get_github_prs / _get_gitlab_mrs: the page walk over a source of page
\* responses; items are the concatenated batches, pages the pages requested.
RECURSIVE Paginate(_, _, _)
Paginate(served, pg, acc) ==
    IF ~WithinLimit(pg) THEN acc
    ELSE LET resp == Served(served, pg)
             asked == [acc EXCEPT !.pages = Append(@, pg)]
         IN  IF NoItems(resp) THEN asked
             ELSE LET batch == resp.json
                      next == [asked EXCEPT !.items = @ \o batch]
                  IN  IF Len(batch) < per_page THEN next
                      ELSE Paginate(served, NextPage(pg), next)

GetGithubPrs(served) ==
    Paginate(served, 1, [items |-> <<>>, pages |-> <<>>])

GetGitlabMrs(served) ==
    Paginate(served, 1, [items |-> <<>>, pages |-> <<>>])

\* Mutant of IsMerged: the merged_at filter is dropped.
IsMergedAny(pr) == TRUE

\* Line 92: state=closed lists merged and unmerged PRs alike.
IsMerged(pr) == pr.merged_at # NULL

\* _get_github_initial_commit: the sha of the first returned commit, or NULL.
GetGithubInitialCommit(resp) ==
    IF resp.ok /\ resp.json # <<>> THEN resp.json[1].sha ELSE NULL

\* Mutant of CountCheckRuns: only the conclusion "failure" counts as failed.
RECURSIVE CountCheckRunsFailureOnly(_, _)
CountCheckRunsFailureOnly(check_runs, d) ==
    IF check_runs = <<>> THEN d
    ELSE LET check == Head(check_runs)
             conclusion == check.conclusion
             d2 == IF conclusion # NULL
                   THEN [d EXCEPT
                           !.total = @ + 1,
                           !.checks = Append(@, [name |-> check.name, conclusion |-> conclusion]),
                           !.passed = IF conclusion = "failure" THEN @ ELSE @ + 1,
                           !.failed = IF conclusion = "failure" THEN @ + 1 ELSE @]
                   ELSE d
         IN  CountCheckRunsFailureOnly(Tail(check_runs), d2)

\* Mutant of CountCheckRuns: a check-run without conclusion counts as failed.
RECURSIVE CountCheckRunsPendingFails(_, _)
CountCheckRunsPendingFails(check_runs, d) ==
    IF check_runs = <<>> THEN d
    ELSE LET check == Head(check_runs)
             conclusion == check.conclusion
             d2 == IF conclusion # NULL
                   THEN [d EXCEPT
                           !.total = @ + 1,
                           !.checks = Append(@, [name |-> check.name, conclusion |-> conclusion]),
                           !.passed = IF conclusion = "success" THEN @ + 1 ELSE @,
                           !.failed = IF conclusion = "success" THEN @ ELSE @ + 1]
                   ELSE [d EXCEPT !.total = @ + 1, !.failed = @ + 1]
         IN  CountCheckRunsPendingFails(Tail(check_runs), d2)

\* The check-runs loop of _check_all_github_checks_passed.
RECURSIVE CountCheckRuns(_, _)
CountCheckRuns(check_runs, d) ==
    IF check_runs = <<>> THEN d
    ELSE LET check == Head(check_runs)
             conclusion == check.conclusion
             d2 == IF conclusion # NULL
                   THEN [d EXCEPT
                           !.total = @ + 1,
                           !.checks = Append(@, [name |-> check.name, conclusion |-> conclusion]),
                           !.passed = IF conclusion = "success" THEN @ + 1 ELSE @,
                           !.failed = IF conclusion = "success" THEN @ ELSE @ + 1]
                   ELSE d
         IN  CountCheckRuns(Tail(check_runs), d2)

\* Mutant of CheckRunsDecide: entries without a conclusion do not decide.
CheckRunsDecideCompleted(resp) ==
    resp.ok /\ \E i \in DOMAIN resp.json.check_runs :
                  resp.json.check_runs[i].conclusion # NULL

\* Whether the check-runs tier returns a verdict (lines 227 and 230).
CheckRunsDecide(resp) == resp.ok /\ resp.json.check_runs # <<>>

\* Lines 231-248.
CheckRunsVerdict(resp) ==
    LET d == CountCheckRuns(resp.json.check_runs, NewDetails)
    IN  [all_passed |-> d.total > 0 /\ d.failed = 0, details |-> d]

\* Mutant of StatusVerdict: a combined state still pending passes.
StatusVerdictPendingPasses(resp) ==
    IF resp.ok /\ ~resp.json.empty
    THEN LET state == IF resp.json.state = ABSENT THEN "unknown" ELSE resp.json.state
             d == [NewDetails EXCEPT
                     !.checks = Append(@, [name |-> "combined-status", conclusion |-> state]),
                     !.total = 1]
         IN  IF state \in {"success", "pending"}
             THEN [all_passed |-> TRUE, details |-> [d EXCEPT !.passed = 1]]
             ELSE [all_passed |-> FALSE, details |-> [d EXCEPT !.failed = 1]]
    ELSE [all_passed |-> FALSE,
          details |-> [checks |-> <<>>, total |-> 0, passed |-> 0, failed |-> 0,
                       error |-> "No checks found"]]

\* Lines 254-267: the combined-status tier and the final "no checks" return.
StatusVerdict(resp) ==
    IF resp.ok /\ ~resp.json.empty
    THEN LET state == IF resp.json.state = ABSENT THEN "unknown" ELSE resp.json.state
             d == [NewDetails EXCEPT
                     !.checks = Append(@, [name |-> "combined-status", conclusion |-> state]),
                     !.total = 1]
         IN  IF state = "success"
             THEN [all_passed |-> TRUE, details |-> [d EXCEPT !.passed = 1]]
             ELSE [all_passed |-> FALSE, details |-> [d EXCEPT !.failed = 1]]
    ELSE [all_passed |-> FALSE,
          details |-> [checks |-> <<>>, total |-> 0, passed |-> 0, failed |-> 0,
                       error |-> "No checks found"]]

\* Mutant of GetGitlabInitialCommit: the first returned commit is taken.
GetGitlabInitialCommitFirst(resp) ==
    IF resp.ok /\ resp.json # <<>> THEN resp.json[1].id ELSE NULL

\* _get_gitlab_initial_commit: the id of the last returned commit, or NULL.
GetGitlabInitialCommit(resp) ==
    IF resp.ok /\ resp.json # <<>> THEN resp.json[Len(resp.json)].id ELSE NULL

\* _get_gitlab_pipeline_for_sha: the id of the first returned pipeline, or NULL.
GetGitlabPipelineForSha(resp) ==
    IF resp.ok /\ resp.json # <<>> THEN resp.json[1].id ELSE NULL

\* Mutant of CountJobs: each job is put in front of the jobs seen so far.
RECURSIVE CountJobsNewestFirst(_, _)
CountJobsNewestFirst(jobs, d) ==
    IF jobs = <<>> THEN d
    ELSE LET job == Head(jobs)
             d2 == [d EXCEPT
                      !.total = @ + 1,
                      !.jobs = <<[name |-> job.name, status |-> job.status]>> \o @,
                      !.passed = IF job.status = "success" THEN @ + 1 ELSE @,
                      !.failed = IF job.status = "success" THEN @ ELSE @ + 1]
         IN  CountJobsNewestFirst(Tail(jobs), d2)

\* The job loop of _check_all_gitlab_jobs_passed.
RECURSIVE CountJobs(_, _)
CountJobs(jobs, d) ==
    IF jobs = <<>> THEN d
    ELSE LET job == Head(jobs)
             d2 == [d EXCEPT
                      !.total = @ + 1,
                      !.jobs = Append(@, [name |-> job.name, status |-> job.status]),
                      !.passed = IF job.status = "success" THEN @ + 1 ELSE @,
                      !.failed = IF job.status = "success" THEN @ ELSE @ + 1]
         IN  CountJobs(Tail(jobs), d2)

\* Mutant of JobsVerdict: a pipeline without a job list passes vacuously.
JobsVerdictVacuous(resp) ==
    LET d == CountJobs(resp.json, NewJobDetails)
    IN  [all_passed |-> d.failed = 0, details |-> d]

\* Lines 507-529.
JobsVerdict(resp) ==
    IF resp.ok /\ resp.json # <<>>
    THEN LET d == CountJobs(resp.json, NewJobDetails)
         IN  [all_passed |-> d.total > 0 /\ d.failed = 0, details |-> d]
    ELSE [all_passed |-> FALSE,
          details |-> [jobs |-> <<>>, total |-> 0, passed |-> 0, failed |-> 0,
                       error |-> "No jobs found"]]

\* Lines 96 and 339: every PR/MR that enters the pipeline counts toward total.
CountMerged(t) == t + 1

\* Mutant of CountUnresolved: an unresolved initial SHA counts as a failure.
CountUnresolvedAsFailure(counts) == [counts EXCEPT !.failures = @ + 1]

\* Lines 102-104 and 346-348: an unresolved initial SHA moves no counter.
CountUnresolved(counts) == counts

\* Mutant of CountNoPipeline: a missing pipeline is skipped.
CountNoPipelineSkip(counts) == counts

\* Lines 355-358: a missing pipeline is a failure.
CountNoPipeline(counts) == [counts EXCEPT !.failures = @ + 1]

\* Mutants of CountVerdict: the test is inverted; the else is missing.
CountVerdictInverted(ok, counts) ==
    IF ~ok THEN [counts EXCEPT !.passes = @ + 1]
    ELSE [counts EXCEPT !.failures = @ + 1]

CountVerdictNoElse(ok, counts) ==
    IF ok THEN [counts EXCEPT !.passes = @ + 1, !.failures = @ + 1]
    ELSE [counts EXCEPT !.failures = @ + 1]

\* Lines 120-125 and 372-377: one verdict moves exactly one counter.
CountVerdict(ok, counts) ==
    IF ok THEN [counts EXCEPT !.passes = @ + 1]
    ELSE [counts EXCEPT !.failures = @ + 1]

Counts == [passes |-> passes, failures |-> failures]

\* -------------------------------------------------------------------- Init
\* No _make_request call is under study.
RequesterIdle ==
    /\ attempt = 0
    /\ replies = <<>>
    /\ sleeps = <<>>
    /\ now = 0
    /\ outcome = NULL

\* Standard output of print_summary(): the line "No results to display." or
\* the table, one row per result.
Output(text, rows) == [text |-> text, rows |-> rows]
NothingPrinted == Output(NULL, <<>>)

\* No Scraper object is under study.
ScraperIdle ==
    /\ repos = <<>>
    /\ repo_idx = 1
    /\ results = <<>>
    /\ processed = <<>>
    /\ returned = [by |-> NULL, value |-> <<>>]
    /\ calls = 0
    /\ printed = NothingPrinted

Init ==
    /\ platform \in {"github", "gitlab"}
    /\ pc = "start"
    /\ prs = <<>>
    /\ mrs = <<>>
    /\ idx = 1
    /\ total = 0
    /\ passes = 0
    /\ failures = 0
    /\ initial_sha = NULL
    /\ pipeline_id = NULL
    /\ all_passed = FALSE
    /\ details = NewDetails
    /\ requests = <<>>
    /\ response = NoResponse
    /\ observed = <<>>
    /\ result = NoResult
    /\ source \in (IF platform = "github" THEN PrSources ELSE MrSources)
    /\ page = 1
    /\ RequesterIdle
    /\ ScraperIdle

\* The end of one loop iteration: the iteration's locals go out of use.
EndIteration ==
    /\ idx' = idx + 1
    /\ initial_sha' = NULL
    /\ pipeline_id' = NULL
    /\ all_passed' = FALSE
    /\ details' = NewDetails
    /\ response' = NoResponse

\* ---------------------------------------------------------- GitHub adapter
\* Lines 84-88.
GithubGetPrs ==
    /\ pc = "start" /\ platform = "github"
    /\ LET walked == GetGithubPrs(source)
       IN  /\ prs' = walked.items
           /\ requests' = requests \o
                 [i \in 1..Len(walked.pages) |-> Request("pulls", walked.pages[i])]
    /\ idx' = 1 /\ total' = 0 /\ passes' = 0 /\ failures' = 0
    /\ pc' = "gh_loop"
    /\ source' = <<>>
    /\ UNCHANGED <<page, reqVars, runVars,
                   platform, mrs, initial_sha, pipeline_id, all_passed, details,
                   response, observed, result>>

\* Lines 90-94.
GithubSkipUnmerged ==
    /\ pc = "gh_loop" /\ idx <= Len(prs)
    /\ ~IsMerged(prs[idx])
    /\ idx' = idx + 1
    /\ UNCHANGED <<walkVars, reqVars, runVars,
                   platform, pc, prs, mrs, total, passes, failures, initial_sha,
                   pipeline_id, all_passed, details, requests, response, observed,
                   result>>

\* Lines 96-101, up to the commit-list request.
GithubBeginPr ==
    /\ pc = "gh_loop" /\ idx <= Len(prs)
    /\ IsMerged(prs[idx])
    /\ total' = CountMerged(total)
    /\ requests' = Append(requests, Request("commits", prs[idx].number))
    /\ pc' = "gh_commits"
    /\ UNCHANGED <<walkVars, reqVars, runVars,
                   platform, prs, mrs, idx, passes, failures, initial_sha,
                   pipeline_id, all_passed, details, response, observed, result>>

\* Lines 199-206: the commit-list response.
GithubInitialCommit ==
    /\ pc = "gh_commits"
    /\ \E resp \in GithubCommitResponses :
         /\ response' = resp
         /\ initial_sha' = GetGithubInitialCommit(resp)
    /\ pc' = "gh_resolved"
    /\ UNCHANGED <<walkVars, reqVars, runVars,
                   platform, prs, mrs, idx, total, passes, failures, pipeline_id,
                   all_passed, details, requests, observed, result>>

\* Lines 102-104: no initial SHA, the PR is skipped.
GithubSkipUnresolved ==
    /\ pc = "gh_resolved" /\ initial_sha = NULL
    /\ passes' = CountUnresolved(Counts).passes
    /\ failures' = CountUnresolved(Counts).failures
    /\ observed' = Append(observed, Observation(prs[idx].number, "no_sha", FALSE, FALSE))
    /\ EndIteration
    /\ pc' = "gh_loop"
    /\ UNCHANGED <<walkVars, reqVars, runVars,
                   platform, prs, mrs, total, requests, result>>

\* Lines 106-109 and 221-225, up to the check-runs request.
GithubRequestCheckRuns ==
    /\ pc = "gh_resolved" /\ initial_sha # NULL
    /\ requests' = Append(requests, Request("check-runs", prs[idx].number))
    /\ pc' = "gh_check_runs"
    /\ UNCHANGED <<walkVars, reqVars, runVars,
                   platform, prs, mrs, idx, total, passes, failures, initial_sha,
                   pipeline_id, all_passed, details, response, observed, result>>

\* Lines 225-252: the check-runs tier, or the request of the fallback tier.
GithubCheckRuns ==
    /\ pc = "gh_check_runs"
    /\ \E resp \in CheckRunsResponses :
         /\ response' = resp
         /\ IF CheckRunsDecide(resp)
            THEN LET v == CheckRunsVerdict(resp)
                 IN  /\ all_passed' = v.all_passed
                     /\ details' = v.details
                     /\ pc' = "gh_count"
                     /\ UNCHANGED requests
            ELSE /\ requests' = Append(requests, Request("status", prs[idx].number))
                 /\ pc' = "gh_status"
                 /\ UNCHANGED <<all_passed, details>>
    /\ UNCHANGED <<walkVars, reqVars, runVars,
                   platform, prs, mrs, idx, total, passes, failures, initial_sha,
                   pipeline_id, observed, result>>

\* Lines 252-267.
GithubStatus ==
    /\ pc = "gh_status"
    /\ \E resp \in StatusResponses :
         LET v == StatusVerdict(resp)
         IN  /\ response' = resp
             /\ all_passed' = v.all_passed
             /\ details' = v.details
    /\ pc' = "gh_count"
    /\ UNCHANGED <<walkVars, reqVars, runVars,
                   platform, prs, mrs, idx, total, passes, failures, initial_sha,
                   pipeline_id, requests, observed, result>>

\* Lines 111-125.
GithubCount ==
    /\ pc = "gh_count"
    /\ passes' = CountVerdict(all_passed, Counts).passes
    /\ failures' = CountVerdict(all_passed, Counts).failures
    /\ observed' = Append(observed,
            Observation(prs[idx].number, "verdict", all_passed, details.total > 0))
    /\ EndIteration
    /\ pc' = "gh_loop"
    /\ UNCHANGED <<walkVars, reqVars, runVars,
                   platform, prs, mrs, total, requests, result>>

\* Lines 127-139.
GithubFinish ==
    /\ pc = "gh_loop" /\ idx > Len(prs)
    /\ result' = MakeResult("GitHub", total, passes, failures)
    /\ pc' = "done"
    /\ UNCHANGED <<walkVars, reqVars, runVars,
                   platform, prs, mrs, idx, total, passes, failures, initial_sha,
                   pipeline_id, all_passed, details, requests, response, observed>>

\* ---------------------------------------------------------- GitLab adapter
\* Lines 332-336.
GitlabGetMrs ==
    /\ pc = "start" /\ platform = "gitlab"
    /\ LET walked == GetGitlabMrs(source)
       IN  /\ mrs' = walked.items
           /\ requests' = requests \o
                 [i \in 1..Len(walked.pages) |-> Request("merge_requests", walked.pages[i])]
    /\ idx' = 1 /\ total' = 0 /\ passes' = 0 /\ failures' = 0
    /\ pc' = "gl_loop"
    /\ source' = <<>>
    /\ UNCHANGED <<page, reqVars, runVars,
                   platform, prs, initial_sha, pipeline_id, all_passed, details,
                   response, observed, result>>

\* Lines 338-344, up to the commit-list request.
GitlabBeginMr ==
    /\ pc = "gl_loop" /\ idx <= Len(mrs)
    /\ total' = CountMerged(total)
    /\ requests' = Append(requests, Request("commits", mrs[idx].iid))
    /\ pc' = "gl_commits"
    /\ UNCHANGED <<walkVars, reqVars, runVars,
                   platform, prs, mrs, idx, passes, failures, initial_sha,
                   pipeline_id, all_passed, details, response, observed, result>>

\* Lines 451-461: the commit-list response.
GitlabInitialCommit ==
    /\ pc = "gl_commits"
    /\ \E resp \in GitlabCommitResponses :
         /\ response' = resp
         /\ initial_sha' = GetGitlabInitialCommit(resp)
    /\ pc' = "gl_resolved"
    /\ UNCHANGED <<walkVars, reqVars, runVars,
                   platform, prs, mrs, idx, total, passes, failures, pipeline_id,
                   all_passed, details, requests, observed, result>>

\* Lines 346-348: no initial SHA, the MR is skipped.
GitlabSkipUnresolved ==
    /\ pc = "gl_resolved" /\ initial_sha = NULL
    /\ passes' = CountUnresolved(Counts).passes
    /\ failures' = CountUnresolved(Counts).failures
    /\ observed' = Append(observed, Observation(mrs[idx].iid, "no_sha", FALSE, FALSE))
    /\ EndIteration
    /\ pc' = "gl_loop"
    /\ UNCHANGED <<walkVars, reqVars, runVars,
                   platform, prs, mrs, total, requests, result>>

\* Lines 350-353 and 477-480, up to the pipeline request.
GitlabRequestPipeline ==
    /\ pc = "gl_resolved" /\ initial_sha # NULL
    /\ requests' = Append(requests, Request("pipelines", mrs[idx].iid))
    /\ pc' = "gl_pipeline"
    /\ UNCHANGED <<walkVars, reqVars, runVars,
                   platform, prs, mrs, idx, total, passes, failures, initial_sha,
                   pipeline_id, all_passed, details, response, observed, result>>

\* Lines 480-487: the pipeline response.
GitlabPipeline ==
    /\ pc = "gl_pipeline"
    /\ \E resp \in PipelineResponses :
         /\ response' = resp
         /\ pipeline_id' = GetGitlabPipelineForSha(resp)
    /\ pc' = "gl_piped"
    /\ UNCHANGED <<walkVars, reqVars, runVars,
                   platform, prs, mrs, idx, total, passes, failures, initial_sha,
                   all_passed, details, requests, observed, result>>

\* Lines 355-358: no pipeline, the MR is a failure.
GitlabNoPipeline ==
    /\ pc = "gl_piped" /\ pipeline_id = NULL
    /\ passes' = CountNoPipeline(Counts).passes
    /\ failures' = CountNoPipeline(Counts).failures
    /\ observed' = Append(observed, Observation(mrs[idx].iid, "no_pipeline", FALSE, FALSE))
    /\ EndIteration
    /\ pc' = "gl_loop"
    /\ UNCHANGED <<walkVars, reqVars, runVars,
                   platform, prs, mrs, total, requests, result>>

\* Lines 360-361 and 502-505, up to the job-list request.
GitlabRequestJobs ==
    /\ pc = "gl_piped" /\ pipeline_id # NULL
    /\ requests' = Append(requests, Request("jobs", mrs[idx].iid))
    /\ pc' = "gl_jobs"
    /\ UNCHANGED <<walkVars, reqVars, runVars,
                   platform, prs, mrs, idx, total, passes, failures, initial_sha,
                   pipeline_id, all_passed, details, response, observed, result>>

\* Lines 505-529: the job-list response.
GitlabJobs ==
    /\ pc = "gl_jobs"
    /\ \E resp \in JobsResponses :
         LET v == JobsVerdict(resp)
         IN  /\ response' = resp
             /\ all_passed' = v.all_passed
             /\ details' = v.details
    /\ pc' = "gl_count"
    /\ UNCHANGED <<walkVars, reqVars, runVars,
                   platform, prs, mrs, idx, total, passes, failures, initial_sha,
                   pipeline_id, requests, observed, result>>

\* Lines 363-377.
GitlabCount ==
    /\ pc = "gl_count"
    /\ passes' = CountVerdict(all_passed, Counts).passes
    /\ failures' = CountVerdict(all_passed, Counts).failures
    /\ observed' = Append(observed,
            Observation(mrs[idx].iid, "verdict", all_passed, details.total > 0))
    /\ EndIteration
    /\ pc' = "gl_loop"
    /\ UNCHANGED <<walkVars, reqVars, runVars,
                   platform, prs, mrs, total, requests, result>>

\* Lines 379-391.
GitlabFinish ==
    /\ pc = "gl_loop" /\ idx > Len(mrs)
    /\ result' = MakeResult("GitLab", total, passes, failures)
    /\ pc' = "done"
    /\ UNCHANGED <<walkVars, reqVars, runVars,
                   platform, prs, mrs, idx, total, passes, failures, initial_sha,
                   pipeline_id, all_passed, details, requests, response, observed>>

Next ==
    \/ GithubGetPrs
    \/ GithubSkipUnmerged
    \/ GithubBeginPr
    \/ GithubInitialCommit
    \/ GithubSkipUnresolved
    \/ GithubRequestCheckRuns
    \/ GithubCheckRuns
    \/ GithubStatus
    \/ GithubCount
    \/ GithubFinish
    \/ GitlabGetMrs
    \/ GitlabBeginMr
    \/ GitlabInitialCommit
    \/ GitlabSkipUnresolved
    \/ GitlabRequestPipeline
    \/ GitlabPipeline
    \/ GitlabNoPipeline
    \/ GitlabRequestJobs
    \/ GitlabJobs
    \/ GitlabCount
    \/ GitlabFinish

Spec == Init /\ [][Next]_vars

\* --------------------------------------------- the result, from loop exit
\* The state in which the for loop of either adapter is left after t merged
\* PRs/MRs of which the first p passed, the next f failed and the rest had
\* no initial SHA.
RECURSIVE LoopRequests(_, _, _)
LoopRequests(plat, obs, i) ==
    IF i > Len(obs) THEN <<>>
    ELSE LET u == obs[i].unit
             own == IF obs[i].ended = "no_sha" THEN <<Request("commits", u)>>
                    ELSE IF plat = "github"
                    THEN <<Request("commits", u), Request("check-runs", u)>>
                    ELSE <<Request("commits", u), Request("pipelines", u),
                           Request("jobs", u)>>
         IN  own \o LoopRequests(plat, obs, i + 1)

LoopExit(plat, t, p, f) ==
    LET obs == [i \in 1..t |->
                   Observation(t + 1 - i,
                               IF i <= p + f THEN "verdict" ELSE "no_sha",
                               i <= p, i <= p + f)]
    IN  /\ pc = (IF plat = "github" THEN "gh_loop" ELSE "gl_loop")
        /\ prs = (IF plat = "github"
                  THEN [i \in 1..t |-> [number |-> t + 1 - i, merged_at |-> MERGED_TS]]
                  ELSE <<>>)
        /\ mrs = (IF plat = "gitlab" THEN [i \in 1..t |-> [iid |-> t + 1 - i]] ELSE <<>>)
        /\ idx = t + 1
        /\ observed = obs
        /\ requests = <<Request(IF plat = "github" THEN "pulls" ELSE "merge_requests", 1)>>
                          \o LoopRequests(plat, obs, 1)
        /\ initial_sha = NULL
        /\ pipeline_id = NULL
        /\ all_passed = FALSE
        /\ details = NewDetails
        /\ response = NoResponse
        /\ result = NoResult
        /\ source = <<>>
        /\ page = 1
        /\ RequesterIdle
        /\ ScraperIdle

InitResult ==
    /\ platform \in {"github", "gitlab"}
    /\ total \in 0..MaxTotal
    /\ passes \in 0..total
    /\ failures \in 0..(total - passes)
    /\ LoopExit(platform, total, passes, failures)

NextResult ==
    \/ GithubFinish
    \/ GitlabFinish

SpecResult == InitResult /\ [][NextResult]_vars

\* ------------------------------------------------- the page walk, stepwise
\* _get_github_prs and _get_gitlab_mrs step by step, against listing
\* endpoints that serve up to MaxWalkPages pages of up to per_page items.
\* The items walked are kept in prs (GitHub) or mrs (GitLab).
WalkItem(plat, n) ==
    IF plat = "github" THEN [number |-> n, merged_at |-> MERGED_TS] ELSE [iid |-> n]

\* A page of the given size: newest first, or the same item repeated.
WalkBatch(plat, pg, size, order) ==
    [i \in 1..size |->
        WalkItem(plat, IF order = "same" THEN 1
                       ELSE (MaxWalkPages + 1 - pg) * per_page + 1 - i)]

\* The shape of one page: no answer at all, or a size and an order.
PageShapes ==
    {[size |-> 0, order |-> "none"]} \cup [size : PageSizes, order : {"desc", "same"}]

WalkResponse(plat, pg, shape) ==
    IF shape.order = "none" THEN NoResponse
    ELSE [ok |-> TRUE, json |-> WalkBatch(plat, pg, shape.size, shape.order)]

WalkSources(plat) ==
    UNION {{[g \in 1..k |-> WalkResponse(plat, g, shapes[g])] :
               shapes \in [1..k -> PageShapes]} : k \in 1..MaxWalkPages}

ListingKind == IF platform = "github" THEN "pulls" ELSE "merge_requests"
WalkItems == IF platform = "github" THEN prs ELSE mrs

Extend(batch) ==
    IF platform = "github"
    THEN prs' = prs \o batch /\ UNCHANGED mrs
    ELSE mrs' = mrs \o batch /\ UNCHANGED prs

InitWalk ==
    /\ platform \in {"github", "gitlab"}
    /\ pc = "walk_test"
    /\ source \in WalkSources(platform)
    /\ page = 1
    /\ prs = <<>>
    /\ mrs = <<>>
    /\ idx = 1
    /\ total = 0
    /\ passes = 0
    /\ failures = 0
    /\ initial_sha = NULL
    /\ pipeline_id = NULL
    /\ all_passed = FALSE
    /\ details = NewDetails
    /\ requests = <<>>
    /\ response = NoResponse
    /\ observed = <<>>
    /\ result = NoResult
    /\ RequesterIdle
    /\ ScraperIdle

walkFrame ==
    <<platform, idx, total, passes, failures, initial_sha, pipeline_id, all_passed,
      details, observed, result, source, reqVars, runVars>>

\* Lines 157-168 and 409-420: the loop condition holds and the page is asked.
WalkRequest ==
    /\ pc = "walk_test" /\ WithinLimit(page)
    /\ requests' = Append(requests, Request(ListingKind, page))
    /\ response' = Served(source, page)
    /\ pc' = "walk_got"
    /\ UNCHANGED <<prs, mrs, page, walkFrame>>

\* Lines 157 and 409: the loop condition fails; line 181/433 returns.
WalkCapReached ==
    /\ pc = "walk_test" /\ ~WithinLimit(page)
    /\ pc' = "walk_done"
    /\ UNCHANGED <<prs, mrs, page, requests, response, walkFrame>>

\* Lines 170-171 and 422-423: no response or an empty page breaks.
WalkNoItems ==
    /\ pc = "walk_got" /\ NoItems(response)
    /\ pc' = "walk_done"
    /\ UNCHANGED <<prs, mrs, page, requests, response, walkFrame>>

\* Lines 173-177 and 425-429: a short page is kept and breaks.
WalkShortPage ==
    /\ pc = "walk_got" /\ ~NoItems(response)
    /\ Len(response.json) < per_page
    /\ Extend(response.json)
    /\ pc' = "walk_done"
    /\ UNCHANGED <<page, requests, response, walkFrame>>

\* Lines 173-179 and 425-431: a full page is kept and the page advances.
WalkFullPage ==
    /\ pc = "walk_got" /\ ~NoItems(response)
    /\ ~(Len(response.json) < per_page)
    /\ Extend(response.json)
    /\ page' = NextPage(page)
    /\ pc' = "walk_test"
    /\ UNCHANGED <<requests, response, walkFrame>>

NextWalk ==
    \/ WalkRequest
    \/ WalkCapReached
    \/ WalkNoItems
    \/ WalkShortPage
    \/ WalkFullPage

SpecWalk == InitWalk /\ [][NextWalk]_vars

\* The walk is sequential code: a step that can be taken is taken.
FairWalk == SpecWalk /\ WF_vars(NextWalk)

\* ------------------------------------------------- _make_request, stepwise
\* One call of _make_request. Every loop iteration is one action: the GET,
\* what it met (a reply, drawn from Replies) and the branch taken on it.
\* A numeric header is a record [form, value]; a MALFORMED header is any
\* text on which int() or time.sleep() raises ValueError (an HTTP-date, a
\* word, a negative number). The value of X-RateLimit-Reset is kept relative
\* to the clock: value = int(reset_time) - int(time.time()).
Header(form, value) == [form |-> form, value |-> value]
NoHeader == Header(ABSENT, 0)
RetryAfterHeaders ==
    {NoHeader, Header(MALFORMED, 0)} \cup {Header("int", v) : v \in 0..MaxRetryAfter}
ResetHeaders ==
    {NoHeader, Header(MALFORMED, 0)} \cup {Header("int", v) : v \in -1..MaxWait}

Reply(failed, status, retry_after, reset) ==
    [failed |-> failed, status |-> status, retry_after |-> retry_after, reset |-> reset]

\* requests.get raised a RequestException: there is no response.
NetworkFailure == Reply(TRUE, 0, NoHeader, NoHeader)

Replies ==
    {NetworkFailure}
        \cup {Reply(FALSE, st, NoHeader, NoHeader) : st \in {200, 304, 404, 500}}
        \cup {Reply(FALSE, 429, h, NoHeader) : h \in RetryAfterHeaders}
        \cup {Reply(FALSE, 403, NoHeader, h) : h \in ResetHeaders}

Sleep(why, secs, after) == [why |-> why, secs |-> secs, after |-> after]

\* Line 575: int(response.headers.get('Retry-After', 60)).
RetryAfter(reply) ==
    IF reply.retry_after.form = ABSENT THEN DefaultRetryAfter
    ELSE reply.retry_after.value

\* Lines 581-586: the 403 branch sleeps and retries.
ForbiddenWaits(reply) ==
    /\ reply.status = 403
    /\ reply.reset.form = "int"
    /\ reply.reset.value > 0

\* Line 590: raise_for_status raises for 4xx and 5xx only.
RaisesForStatus(reply) == reply.status >= 400 /\ reply.status < 600

\* Mutant of Backoff: the delay does not grow.
BackoffConstant(n) == 1

\* Line 596: 2 ** attempt.
Backoff(n) == 2 ^ n

\* Line 595: attempt < retry_count - 1 fails on the final attempt.
LastAttempt(n) == ~(n < retry_count - 1)

InitRequest ==
    /\ platform = NULL
    /\ pc = "rq_loop"
    /\ attempt = 0
    /\ replies = <<>>
    /\ sleeps = <<>>
    /\ now = 0
    /\ outcome = NULL
    /\ prs = <<>>
    /\ mrs = <<>>
    /\ idx = 1
    /\ total = 0
    /\ passes = 0
    /\ failures = 0
    /\ initial_sha = NULL
    /\ pipeline_id = NULL
    /\ all_passed = FALSE
    /\ details = NewDetails
    /\ requests = <<>>
    /\ response = NoResponse
    /\ observed = <<>>
    /\ result = NoResult
    /\ source = <<>>
    /\ page = 1
    /\ ScraperIdle

\* Line 571: the GET of the current attempt meets reply.
Get(reply) ==
    /\ pc = "rq_loop" /\ attempt < retry_count
    /\ replies' = Append(replies, reply)

\* time.sleep(secs), then the next iteration of the for loop.
SleepAndRetry(why, secs) ==
    /\ sleeps' = Append(sleeps, Sleep(why, secs, attempt))
    /\ now' = now + secs
    /\ attempt' = attempt + 1
    /\ UNCHANGED <<pc, outcome>>

\* Lines 574-578: 429 with a usable Retry-After, or none.
RqRateLimited ==
    \E reply \in Replies :
        /\ Get(reply)
        /\ reply.status = 429 /\ reply.retry_after.form # MALFORMED
        /\ SleepAndRetry("retry_after", RetryAfter(reply))
        /\ UNCHANGED <<adapterVars, walkVars, runVars>>

\* Lines 574-577: int() or time.sleep() raises ValueError, which the except
\* clause of line 593 does not catch.
RqRateLimitedMalformed ==
    \E reply \in Replies :
        /\ Get(reply)
        /\ reply.status = 429 /\ reply.retry_after.form = MALFORMED
        /\ outcome' = "raised"
        /\ pc' = "rq_done"
        /\ UNCHANGED <<attempt, sleeps, now, adapterVars, walkVars, runVars>>

\* Lines 581-588: 403 with a reset time still ahead.
RqForbiddenWait ==
    \E reply \in Replies :
        /\ Get(reply)
        /\ ForbiddenWaits(reply)
        /\ SleepAndRetry("rate_limit_reset", reply.reset.value)
        /\ UNCHANGED <<adapterVars, walkVars, runVars>>

\* Line 585: int(reset_time) raises ValueError.
RqForbiddenMalformed ==
    \E reply \in Replies :
        /\ Get(reply)
        /\ reply.status = 403 /\ reply.reset.form = MALFORMED
        /\ outcome' = "raised"
        /\ pc' = "rq_done"
        /\ UNCHANGED <<attempt, sleeps, now, adapterVars, walkVars, runVars>>

\* Lines 593-596: the except clause, entered from requests.get (a network
\* failure) or from raise_for_status (line 590).
RqFailure ==
    \E reply \in Replies :
        /\ Get(reply)
        /\ \/ reply.failed
           \/ /\ ~reply.failed
              /\ reply.status # 429
              /\ ~ForbiddenWaits(reply)
              /\ ~(reply.status = 403 /\ reply.reset.form = MALFORMED)
              /\ RaisesForStatus(reply)
        /\ IF LastAttempt(attempt)
           THEN UNCHANGED <<sleeps, now>>
           ELSE /\ sleeps' = Append(sleeps, Sleep("backoff", Backoff(attempt), attempt))
                /\ now' = now + Backoff(attempt)
        /\ attempt' = attempt + 1
        /\ UNCHANGED <<pc, outcome, adapterVars, walkVars, runVars>>

\* Lines 590-591: raise_for_status passes and the response is returned.
RqReturn ==
    \E reply \in Replies :
        /\ Get(reply)
        /\ ~reply.failed
        /\ reply.status # 429
        /\ reply.status # 403
        /\ ~RaisesForStatus(reply)
        /\ outcome' = "response"
        /\ pc' = "rq_done"
        /\ UNCHANGED <<attempt, sleeps, now, adapterVars, walkVars, runVars>>

\* Line 598: the attempts are used up.
RqExhausted ==
    /\ pc = "rq_loop" /\ ~(attempt < retry_count)
    /\ outcome' = "none"
    /\ pc' = "rq_done"
    /\ UNCHANGED <<attempt, replies, sleeps, now, adapterVars, walkVars, runVars>>

NextRequest ==
    \/ RqRateLimited
    \/ RqRateLimitedMalformed
    \/ RqForbiddenWait
    \/ RqForbiddenMalformed
    \/ RqFailure
    \/ RqReturn
    \/ RqExhausted

SpecRequest == InitRequest /\ [][NextRequest]_vars

\* ------------------------------------------------------- run(), stepwise
\* A Scraper built over up to MaxRepos configs, on which run() is called up
\* to MaxCalls times and get_results() at any time between the calls. One
\* iteration of run()'s for loop is one action; the adapter it calls is
\* taken as a whole: it returns a result record or raises.
ConfigPlatforms == {"github", "GitLab", "bitbucket"}

\* The i-th config of a list has the repo_path RepoPaths[i].
RepoPaths == <<"org/a", "org/b", "org/c", "org/d">>
RepoConfig(plat, i) == [platform |-> plat, repo_path |-> RepoPaths[i]]

RepoLists ==
    UNION {{[i \in 1..k |-> RepoConfig(plats[i], i)] : plats \in [1..k -> ConfigPlatforms]}
              : k \in 0..MaxRepos}

\* Line 45: str.lower() on the platforms of ConfigPlatforms.
Lower(plat) == IF plat = "GitLab" THEN "gitlab" ELSE plat

Supported(plat) == Lower(plat) \in {"github", "gitlab"}

\* What a completed adapter call can return for a config: the record of
\* lines 132-139 or 384-391, for no merged PR/MR or for one that passed.
AdapterResults(config) ==
    {[MakeResult(IF Lower(config.platform) = "github" THEN "GitHub" ELSE "GitLab",
                 t, t, 0) EXCEPT !.repo_name = config.repo_path] : t \in 0..1}

Processed(i, ended, res) == [config |-> i, ended |-> ended, result |-> res]

\* Mutant of Collect: the result is put in front of the list.
CollectInFront(list, res) == <<res>> \o list

\* Mutant of Collect: the list is rebuilt around the new result.
CollectReplacing(list, res) == <<res>>

\* Line 59: self.results.append(result).
Collect(list, res) == Append(list, res)

\* Mutant of AfterError: the first error ends the loop.
AfterErrorStop(i) == Len(repos) + 1

\* Lines 60-61: the except clause logs, and the for loop goes on.
AfterError(i) == i + 1

InitRun ==
    /\ platform = NULL
    /\ pc = "idle"
    /\ repos \in RepoLists
    /\ repo_idx = 1
    /\ results = <<>>
    /\ processed = <<>>
    /\ returned = [by |-> NULL, value |-> <<>>]
    /\ calls = 0
    /\ printed = NothingPrinted
    /\ prs = <<>>
    /\ mrs = <<>>
    /\ idx = 1
    /\ total = 0
    /\ passes = 0
    /\ failures = 0
    /\ initial_sha = NULL
    /\ pipeline_id = NULL
    /\ all_passed = FALSE
    /\ details = NewDetails
    /\ requests = <<>>
    /\ response = NoResponse
    /\ observed = <<>>
    /\ result = NoResult
    /\ source = <<>>
    /\ page = 1
    /\ RequesterIdle

\* Lines 37-43: run() is called.
RunCall ==
    /\ pc = "idle" /\ calls < MaxCalls
    /\ calls' = calls + 1
    /\ repo_idx' = 1
    /\ processed' = <<>>
    /\ pc' = "run_loop"
    /\ UNCHANGED <<repos, results, returned, printed, adapterVars, walkVars, reqVars>>

\* Lines 44-57: a platform that is neither github nor gitlab is logged.
RunUnsupported ==
    /\ pc = "run_loop" /\ repo_idx <= Len(repos)
    /\ ~Supported(repos[repo_idx].platform)
    /\ processed' = Append(processed, Processed(repo_idx, "unsupported", NoResult))
    /\ repo_idx' = repo_idx + 1
    /\ UNCHANGED <<pc, repos, results, returned, calls, printed, adapterVars, walkVars,
                   reqVars>>

\* Lines 44-59: the adapter returns and its result is appended.
RunAppend ==
    /\ pc = "run_loop" /\ repo_idx <= Len(repos)
    /\ Supported(repos[repo_idx].platform)
    /\ \E res \in AdapterResults(repos[repo_idx]) :
         /\ results' = Collect(results, res)
         /\ processed' = Append(processed, Processed(repo_idx, "appended", res))
    /\ repo_idx' = repo_idx + 1
    /\ UNCHANGED <<pc, repos, returned, calls, printed, adapterVars, walkVars, reqVars>>

\* Lines 44-61: the adapter raises; the except clause logs the error.
RunError ==
    /\ pc = "run_loop" /\ repo_idx <= Len(repos)
    /\ Supported(repos[repo_idx].platform)
    /\ processed' = Append(processed, Processed(repo_idx, "error", NoResult))
    /\ repo_idx' = AfterError(repo_idx)
    /\ UNCHANGED <<pc, repos, results, returned, calls, printed, adapterVars, walkVars,
                   reqVars>>

\* Line 63: return self.results.
RunReturn ==
    /\ pc = "run_loop" /\ ~(repo_idx <= Len(repos))
    /\ returned' = [by |-> "run", value |-> results]
    /\ pc' = "idle"
    /\ UNCHANGED <<repos, repo_idx, results, processed, calls, printed, adapterVars,
                   walkVars, reqVars>>

\* Lines 624-631: get_results().
GetResults ==
    /\ pc = "idle"
    /\ returned' = [by |-> "get_results", value |-> results]
    /\ UNCHANGED <<pc, repos, repo_idx, results, processed, calls, printed,
                   adapterVars, walkVars, reqVars>>

\* Lines 614-616: one table row, the six fields of a result as printed.
SummaryRow(res) ==
    [repo |-> res.repo_name, platform |-> res.platform, merged |-> res.total_merged,
     ft_pass |-> res.first_time_passes, ft_fail |-> res.first_time_failures,
     ftpr |-> res.ftpr]

\* Lines 600-622: print_summary().
PrintSummary ==
    /\ pc = "idle"
    /\ printed' = IF results = <<>>
                  THEN Output("No results to display.", <<>>)
                  ELSE Output("FIRST-TIME PASS RATE (FTPR) SUMMARY",
                              [i \in DOMAIN results |-> SummaryRow(results[i])])
    /\ UNCHANGED <<pc, repos, repo_idx, results, processed, returned, calls,
                   adapterVars, walkVars, reqVars>>

NextRun ==
    \/ RunCall
    \/ RunUnsupported
    \/ RunAppend
    \/ RunError
    \/ RunReturn
    \/ GetResults
    \/ PrintSummary

SpecRun == InitRun /\ [][NextRun]_vars

\* ------------------------------------------------------------- properties
IsGithub == platform = "github"
IsGitlab == platform = "gitlab"
Ended(kind) == {i \in DOMAIN observed : observed[i].ended = kind}
Passed == {i \in Ended("verdict") : observed[i].all_passed}
Failed == {i \in Ended("verdict") : ~observed[i].all_passed}
MergedPrs == {i \in DOMAIN prs : prs[i].merged_at # NULL}
\* 1 while a PR/MR is between "total += 1" and the end of its iteration.
InIteration == IF pc \in {"start", "gh_loop", "gl_loop", "done"} THEN 0 ELSE 1
LastRequest == requests[Len(requests)]

\* C1: GitHub adapter, end to end. In the returned result every merged PR
\* whose initial SHA resolved is counted exactly once: as a pass iff its
\* verdict was all_passed, as a failure otherwise. Three merged PRs with the
\* verdicts all-pass, one-failing-check, no-checks give 3 / 1 / 2 / 33.33.
C1_GithubEndToEnd ==
    (IsGithub /\ pc = "done") =>
        /\ \A i \in MergedPrs :
               Cardinality({j \in DOMAIN observed : observed[j].unit = prs[i].number}) = 1
        /\ Len(observed) = Cardinality(MergedPrs)
        /\ result.first_time_passes = Cardinality(Passed)
        /\ result.first_time_failures = Cardinality(Failed)
        /\ ( /\ Len(prs) = 3 /\ Cardinality(MergedPrs) = 3
             /\ Ended("verdict") = {1, 2, 3}
             /\ observed[1].all_passed
             /\ ~observed[2].all_passed /\ observed[2].found
             /\ ~observed[3].all_passed /\ ~observed[3].found )
           => /\ result.total_merged = 3
              /\ result.first_time_passes = 1
              /\ result.first_time_failures = 2
              /\ result.ftpr = 3333

C1_Witness ==
    /\ IsGithub /\ pc = "done"
    /\ Len(prs) = 3 /\ Cardinality(MergedPrs) = 3
    /\ Ended("verdict") = {1, 2, 3}
    /\ observed[1].all_passed
    /\ ~observed[2].all_passed /\ observed[2].found
    /\ ~observed[3].all_passed /\ ~observed[3].found
    /\ result.ftpr = 3333

\* C2: on both platforms, at every point of the loop and in the returned
\* result, passes + failures never exceeds the merged total.
C2_CountsWithinTotal ==
    /\ passes + failures <= total
    /\ result.first_time_passes + result.first_time_failures <= result.total_merged

C2_Witness ==
    /\ pc = "done"
    /\ result.first_time_passes > 0
    /\ result.first_time_failures > 0
    /\ result.first_time_passes + result.first_time_failures < result.total_merged

\* C3: every returned result has ftpr = round(100 * passes / total, 2) when
\* total > 0 (the nearest hundredth, an exact half going to the even
\* hundredth as Python's round does) and ftpr = 0 when total = 0; ftpr lies
\* in [0, 100]. ftpr is in hundredths.
C3_FtprRounded ==
    pc = "done" =>
        LET t == result.total_merged
            e == result.ftpr * t - 10000 * result.first_time_passes
        IN  /\ t = 0 => result.ftpr = 0
            /\ t > 0 => /\ 2 * e <= t /\ -2 * e <= t
                        /\ (2 * e = t \/ -2 * e = t) => result.ftpr % 2 = 0
            /\ result.ftpr >= 0 /\ result.ftpr <= 10000

C3_Witness ==
    /\ pc = "done"
    /\ result.total_merged = 32
    /\ result.first_time_passes = 3
    /\ result.ftpr = 938

\* C4: verdict reduction on both platforms. all_passed holds iff at least
\* one outcome was counted and none failed, where every counted outcome
\* other than "success" (cancelled, canceled, ...) is a failed one.
\* [success, success] passes with failed = 0, [success, failure] fails with
\* failed = 1, and no outcome at all fails.
C4_VerdictReduction ==
    /\ pc = "gh_count" =>
         /\ all_passed <=> (details.total > 0 /\ details.failed = 0)
         /\ details.failed = Cardinality({i \in DOMAIN details.checks :
                                 details.checks[i].conclusion # "success"})
         /\ details.total = 0 => ~all_passed
         /\ LastRequest.kind = "check-runs" =>
              LET runs == response.json.check_runs
                  counted == {i \in DOMAIN runs : runs[i].conclusion # NULL}
                  outcomes == [i \in DOMAIN runs |-> runs[i].conclusion]
              IN  /\ details.total = Cardinality(counted)
                  /\ details.failed =
                        Cardinality({i \in counted : runs[i].conclusion # "success"})
                  /\ outcomes = <<"success", "success">>
                        => all_passed /\ details.failed = 0
                  /\ outcomes = <<"success", "failure">>
                        => ~all_passed /\ details.failed = 1
    /\ pc = "gl_count" =>
         /\ all_passed <=> (details.total > 0 /\ details.failed = 0)
         /\ details.failed = Cardinality({i \in DOMAIN details.jobs :
                                 details.jobs[i].status # "success"})
         /\ LET jobs == response.json
                outcomes == [i \in DOMAIN jobs |-> jobs[i].status]
            IN  /\ details.total = Len(jobs)
                /\ details.failed =
                      Cardinality({i \in DOMAIN jobs : jobs[i].status # "success"})
                /\ outcomes = <<"success", "success">>
                      => all_passed /\ details.failed = 0
                /\ outcomes = <<"success", "failed">>
                      => ~all_passed /\ details.failed = 1
                /\ outcomes = <<>> => ~all_passed

C4_Witness ==
    /\ pc = "gh_count"
    /\ LastRequest.kind = "check-runs"
    /\ Len(response.json.check_runs) = 2
    /\ response.json.check_runs[1].conclusion = "success"
    /\ response.json.check_runs[2].conclusion = "cancelled"
    /\ ~all_passed
    /\ details.failed = 1

\* C5: a verdict with zero counted checks is a fail and carries the explicit
\* "No checks found" / "No jobs found" error marker, and no verdict with
\* counted checks carries it.
C5_ZeroChecksMarked ==
    pc \in {"gh_count", "gl_count"} =>
        LET marker == IF pc = "gh_count" THEN "No checks found" ELSE "No jobs found"
            marked == "error" \in DOMAIN details /\ details.error = marker
        IN  /\ details.total = 0 => (~all_passed /\ marked)
            /\ details.total > 0 => ~marked

\* C6: GitHub fallback tier. After a check-runs step without entries, a
\* combined status of "success" gives a pass with the single synthetic check
\* "combined-status" (total 1, passed 1, failed 0); any other combined state
\* gives a fail with total 1, failed 1.
C6_CombinedStatusFallback ==
    (pc = "gh_count" /\ LastRequest.kind = "status" /\ response.ok
        /\ ~response.json.empty) =>
        /\ requests[Len(requests) - 1] = Request("check-runs", LastRequest.unit)
        /\ details.total = 1
        /\ Len(details.checks) = 1
        /\ details.checks[1].name = "combined-status"
        /\ response.json.state = "success" =>
              /\ all_passed
              /\ details = [checks |-> <<[name |-> "combined-status",
                                          conclusion |-> "success"]>>,
                            total |-> 1, passed |-> 1, failed |-> 0]
        /\ response.json.state # "success" =>
              /\ ~all_passed
              /\ details.passed = 0
              /\ details.failed = 1

C6_Witness ==
    /\ pc = "gh_count"
    /\ LastRequest.kind = "status"
    /\ response.ok /\ ~response.json.empty
    /\ response.json.state = "success"
    /\ all_passed
    /\ details.total = 1

\* C7: GitLab initial commit. For a non-empty commit list the resolved SHA
\* is the id of the last element ([c3, c2, c1] resolves to c1); an empty
\* list or a failed request resolves to no SHA.
C7_GitlabInitialCommit ==
    pc = "gl_resolved" =>
        /\ (response.ok /\ response.json # <<>>)
              => initial_sha = response.json[Len(response.json)].id
        /\ (~response.ok \/ response.json = <<>>) => initial_sha = NULL
        /\ response.json = <<[id |-> "c3"], [id |-> "c2"], [id |-> "c1"]>>
              => initial_sha = "c1"

C7_Witness ==
    /\ pc = "gl_resolved"
    /\ response.ok
    /\ response.json = <<[id |-> "c3"], [id |-> "c2"], [id |-> "c1"]>>
    /\ initial_sha = "c1"

\* C8: GitLab. Every MR whose initial SHA resolved but for which no pipeline
\* was found adds exactly one to first_time_failures (it is not skipped),
\* and no job-list request is issued for it.
C8_NoPipelineIsFailure ==
    IsGitlab =>
        /\ failures = Cardinality(Ended("no_pipeline")) + Cardinality(Failed)
        /\ passes = Cardinality(Passed)
        /\ \A i \in Ended("no_pipeline") :
              /\ \E k \in DOMAIN requests :
                    requests[k] = Request("pipelines", observed[i].unit)
              /\ \A k \in DOMAIN requests :
                    requests[k] # Request("jobs", observed[i].unit)
        /\ (pc = "gl_piped" /\ pipeline_id = NULL) =>
              \A k \in DOMAIN requests : requests[k] # Request("jobs", mrs[idx].iid)
        /\ pc = "done" =>
              result.first_time_failures =
                  Cardinality(Ended("no_pipeline")) + Cardinality(Failed)

C8_Witness ==
    /\ IsGitlab /\ pc = "done"
    /\ Cardinality(Ended("no_pipeline")) = 2
    /\ Cardinality(Failed) = 0
    /\ result.first_time_failures = 2

\* C9: GitHub. total_merged is exactly the number of listed PRs with a
\* non-null merged_at; a closed-but-unmerged PR adds nothing to total,
\* passes or failures and causes no commit or check request.
C9_OnlyMergedCounted ==
    IsGithub =>
        /\ total = Cardinality({i \in MergedPrs : i < idx}) + InIteration
        /\ pc = "done" => result.total_merged = Cardinality(MergedPrs)
        /\ \A k \in DOMAIN requests :
              requests[k].kind # "pulls" =>
                  \E i \in MergedPrs : prs[i].number = requests[k].unit
        /\ \A j \in DOMAIN observed :
              \E i \in MergedPrs : prs[i].number = observed[j].unit
        /\ passes + failures = Cardinality(Ended("verdict"))

C9_Witness ==
    /\ IsGithub /\ pc = "done"
    /\ Len(prs) = 3
    /\ MergedPrs = {1, 3}
    /\ result.total_merged = 2
    /\ Len(requests) > 1

\* C10: GitHub skip accounting. A merged PR whose initial SHA cannot be
\* resolved is in total_merged but in neither passes nor failures:
\* passes + failures = total_merged - (merged PRs with an unresolved SHA).
C10_GithubSkipAccounting ==
    IsGithub =>
        /\ passes + failures = total - Cardinality(Ended("no_sha")) - InIteration
        /\ pc = "done" =>
              result.first_time_passes + result.first_time_failures =
                  result.total_merged - Cardinality(Ended("no_sha"))

C10_Witness ==
    /\ IsGithub /\ pc = "done"
    /\ result.total_merged = 3
    /\ Cardinality(Ended("no_sha")) = 2
    /\ result.first_time_passes + result.first_time_failures = 1

\* ------------------------------------------------------------ the page walk
\* The sizes of the pages a source serves (-1 where it gives no answer).
SizesOf(served) ==
    [g \in DOMAIN served |-> IF served[g].ok THEN Len(served[g].json) ELSE -1]

PagesRequested == [i \in DOMAIN requests |-> requests[i].unit]

\* C11: Pagination hard cap. No page is requested once
\* (page - 1) * per_page >= PR_LIMIT, so the walk never holds more than
\* PR_LIMIT (100) items; against pages of sizes 100, 100, 37 it returns
\* exactly the 100 items of page 1 after exactly one request. The finished
\* walk is the one the adapters' listing step takes in one piece.
C11_HardCap ==
    /\ \A i \in DOMAIN requests : (requests[i].unit - 1) * per_page < PR_LIMIT
    /\ Len(WalkItems) <= PR_LIMIT
    /\ pc = "walk_done" =>
         /\ WalkItems = GetGithubPrs(source).items
         /\ PagesRequested = GetGithubPrs(source).pages
         /\ GetGitlabMrs(source) = GetGithubPrs(source)
         /\ SizesOf(source) = <<per_page, per_page, 37>> =>
              /\ Len(WalkItems) = 100
              /\ WalkItems = source[1].json
              /\ requests = <<Request(ListingKind, 1)>>

C11_Witness ==
    /\ pc = "walk_done"
    /\ SizesOf(source) = <<per_page, per_page, 37>>
    /\ Len(WalkItems) = 100
    /\ Len(requests) = 1

\* The batches of the first n pages of a source, joined in page order.
RECURSIVE Joined(_, _)
Joined(served, n) ==
    IF n = 0 THEN <<>> ELSE Joined(served, n - 1) \o Served(served, n).json

\* The pages whose response the walk has consumed.
Consumed == IF pc = "walk_got" THEN Len(requests) - 1 ELSE Len(requests)

\* The page requested last was short (or empty), or got no result.
LastPageEnds == NoItems(response) \/ Len(response.json) < per_page

C12_OrderAndContent ==
    /\ PagesRequested = [i \in 1..Len(requests) |-> i]
    /\ WalkItems = Joined(source, Consumed)
    /\ \A i \in 1..(Len(requests) - 1) :
          /\ ~NoItems(Served(source, i))
          /\ Len(Served(source, i).json) = per_page

\* C12 as stated: pages are requested in order 1, 2, 3, ...; the items are
\* the fetched pages joined in request order; and the walk stops at the
\* first page that is short or has no result (and nowhere else).
C12_StopsOnlyAtShortOrNone ==
    /\ C12_OrderAndContent
    /\ pc = "walk_done" => LastPageEnds

\* C12 (amended): pages are requested in order 1, 2, 3, ... with none
\* skipped or repeated; the items are the fetched pages joined in request
\* order, unsorted and with duplicates kept; the walk always terminates, and
\* it stops at the first page that is short or has no result, or after a
\* full page once (page - 1) * per_page >= PR_LIMIT.
C12_WalkOrderAndTermination ==
    /\ [](/\ C12_OrderAndContent
          /\ pc = "walk_done" =>
                \/ LastPageEnds
                \/ (page - 1) * per_page >= PR_LIMIT /\ Len(response.json) = per_page)
    /\ <>(pc = "walk_done")

\* A full first page: the walk has stopped on the cap, holding the page.
C12_Witness ==
    /\ pc = "walk_done"
    /\ ~LastPageEnds
    /\ Len(requests) = 1
    /\ WalkItems = source[1].json
    /\ Len(source) > 1

\* ------------------------------------------------------------ _make_request
\* The sleeps that followed the i-th GET of the call.
SleepsAfter(i) == {k \in DOMAIN sleeps : sleeps[k].after = i - 1}

\* C13: 429 handling. Every attempt that receives 429 is followed, before
\* the next attempt, by exactly one sleep of the Retry-After value (60 if the
\* header is absent); a 429 with Retry-After: 2 followed by a 200 returns the
\* 200 response after 2 time units of sleep and exactly 2 attempts.
C13_SleepsRetryAfter ==
    /\ \A i \in DOMAIN replies :
          replies[i].status = 429 =>
              /\ Cardinality(SleepsAfter(i)) = 1
              /\ \A k \in SleepsAfter(i) :
                    /\ sleeps[k].why = "retry_after"
                    /\ replies[i].retry_after.form = ABSENT => sleeps[k].secs = 60
                    /\ replies[i].retry_after.form = "int" =>
                          sleeps[k].secs = replies[i].retry_after.value
    /\ (/\ pc = "rq_done"
        /\ Len(replies) = 2
        /\ replies[1] = Reply(FALSE, 429, Header("int", 2), NoHeader)
        /\ replies[2].status = 200)
          => outcome = "response" /\ now >= 2 /\ sleeps = <<Sleep("retry_after", 2, 0)>>

\* The GET that a returned response answers is the last one of the call.
Succeeded(i) == ~replies[i].failed /\ replies[i].status \in 200..299

\* C14: retry budget. One call issues at most retry_count (3) GETs; when it
\* has ended it has returned the response of the first 2xx attempt, that
\* attempt being its last, or None when no attempt met a 2xx.
C14_BudgetAndReturn ==
    /\ Len(replies) <= retry_count
    /\ attempt <= retry_count
    /\ \A i \in 1..(Len(replies) - 1) : ~Succeeded(i)
    /\ pc = "rq_done" =>
         IF \E i \in DOMAIN replies : Succeeded(i)
         THEN outcome = "response" /\ Succeeded(Len(replies))
         ELSE outcome = "none"

\* The i-th GET ended in the except clause of lines 593-596.
FailureAt(i) ==
    \/ replies[i].failed
    \/ /\ replies[i].status >= 400
       /\ replies[i].status # 429
       /\ ~(replies[i].status = 403 /\ replies[i].reset.form = MALFORMED)
       /\ ~(replies[i].status = 403 /\ replies[i].reset.form = "int"
                /\ replies[i].reset.value > 0)

FailuresUpTo(i) == Cardinality({j \in 1..i : FailureAt(j)})

\* C15 as stated: the k-th non-rate-limit failure of a call is followed by a
\* sleep of 2^(k-1) seconds, and no back-off sleep follows the final attempt.
C15_KthFailureBackoff ==
    \A i \in DOMAIN replies :
        FailureAt(i) =>
            IF i = retry_count THEN SleepsAfter(i) = {}
            ELSE /\ Cardinality(SleepsAfter(i)) = 1
                 /\ \A k \in SleepsAfter(i) :
                       sleeps[k] = Sleep("backoff", 2 ^ (FailuresUpTo(i) - 1), i - 1)

\* C15 (amended): a non-rate-limit failure on the i-th attempt of the call,
\* every earlier attempt counted (rate-limited ones too), is followed by a
\* sleep of 2^(i-1) seconds, and no back-off sleep follows the final attempt.
C15_AttemptBackoff ==
    /\ \A i \in DOMAIN replies :
          FailureAt(i) =>
              IF i = retry_count THEN SleepsAfter(i) = {}
              ELSE /\ Cardinality(SleepsAfter(i)) = 1
                   /\ \A k \in SleepsAfter(i) :
                         sleeps[k] = Sleep("backoff", 2 ^ (i - 1), i - 1)
    /\ \A k \in DOMAIN sleeps :
          sleeps[k].why = "backoff" => FailureAt(sleeps[k].after + 1)

\* A rate-limited attempt, then a failure: its back-off is 2 s, not 1 s.
C15_Witness ==
    /\ Len(replies) = 3
    /\ replies[1].status = 429
    /\ replies[2].status = 500
    /\ replies[3].failed
    /\ sleeps = <<Sleep("retry_after", DefaultRetryAfter, 0), Sleep("backoff", 2, 1)>>
    /\ pc = "rq_done" /\ outcome = "none"

\* C16: no exception leaves _make_request, whatever the status, the
\* Retry-After or X-RateLimit-Reset header (present, absent or malformed) or
\* the network failure.
C16_NeverRaises == outcome # "raised"

\* ------------------------------------------------ None from _make_request
\* The response just received is None.
GotNone == ~response.ok

CountersKept == total' = total /\ passes' = passes /\ failures' = failures
CountedAsFailure == total' = total /\ passes' = passes /\ failures' = failures + 1

\* C17: a _make_request call that returns None is absorbed at every step.
\* After None the adapter always has its next step, up to the step that
\* returns the result; a listing that got None ends with the items so far (none: total
\* 0 and ftpr 0); a commit lookup that got None resolves no SHA and the
\* PR/MR is skipped with no counter moved and no further request; None from
\* check-runs falls through to the combined status; None from the combined
\* status, the pipeline lookup or the job list gives a failing verdict or no
\* pipeline, and the PR/MR is counted as a failure.
C17_NoneAbsorbed ==
    /\ [](/\ (pc \in {"gh_resolved", "gl_resolved"} /\ GotNone) =>
                ENABLED (GithubSkipUnresolved \/ GitlabSkipUnresolved)
          /\ (pc = "gl_piped" /\ GotNone) => ENABLED GitlabNoPipeline
          /\ (pc \in {"gh_count", "gl_count"} /\ GotNone) =>
                ENABLED (GithubCount \/ GitlabCount)
          /\ (pc \in {"gh_loop", "gl_loop"} /\ idx > Len(prs) /\ idx > Len(mrs)) =>
                ENABLED (GithubFinish \/ GitlabFinish)
          /\ (pc = "done" /\ prs = <<>> /\ mrs = <<>>) =>
                /\ result.total_merged = 0
                /\ result.ftpr = 0
                /\ result.platform \in {"GitHub", "GitLab"}
          /\ (pc \in {"gh_resolved", "gl_resolved"} /\ GotNone) => initial_sha = NULL
          /\ (pc = "gl_piped" /\ GotNone) => pipeline_id = NULL
          /\ (pc \in {"gh_count", "gl_count"} /\ GotNone) =>
                /\ ~all_passed
                /\ details.total = 0
                /\ details.error \in {"No checks found", "No jobs found"})
    /\ [][/\ (pc = "start" /\ ~source[1].ok) =>
               /\ prs' = <<>> /\ mrs' = <<>>
               /\ total' = 0
               /\ Len(requests') = 1
               /\ pc' \in {"gh_loop", "gl_loop"}
          /\ (pc \in {"gh_resolved", "gl_resolved"} /\ GotNone) =>
               /\ CountersKept
               /\ requests' = requests
               /\ idx' = idx + 1
               /\ pc' \in {"gh_loop", "gl_loop"}
          /\ (pc = "gh_check_runs" /\ ~response'.ok) =>
               /\ pc' = "gh_status"
               /\ requests' = Append(requests, Request("status", prs[idx].number))
          /\ (pc \in {"gl_piped", "gh_count", "gl_count"} /\ GotNone) =>
               /\ CountedAsFailure
               /\ requests' = requests
               /\ idx' = idx + 1
               /\ pc' \in {"gh_loop", "gl_loop"}]_vars

\* The job list of the second MR got None after the first MR was skipped
\* for want of a commit list.
C17_Witness ==
    /\ pc = "gl_count" /\ GotNone
    /\ LastRequest.kind = "jobs"
    /\ total = 2
    /\ Ended("no_sha") # {}
    /\ ~all_passed

\* -------------------------------------------------------------------- run()
\* The configs of the current run() call whose adapter completed, and the
\* results those adapter calls returned, in processing order.
Completed == SelectSeq(processed, LAMBDA e : e.ended = "appended")
NewResults == [i \in DOMAIN Completed |-> Completed[i].result]

\* The last Len(NewResults) entries of the result list.
LatestResults ==
    SubSeq(results, Len(results) - Len(NewResults) + 1, Len(results))

RunEnded == pc = "idle" /\ calls > 0

C19_OnePerCompletedConfig ==
    RunEnded =>
        /\ returned.value = NewResults
        /\ \A i \in DOMAIN NewResults :
              NewResults[i].repo_name = repos[Completed[i].config].repo_path

\* C19 (amended): every call of run() appends to the result list exactly
\* one result per config whose adapter completed, none for the others, in
\* input order, after the results of earlier run() calls on the same
\* object; run() and get_results() return that list, which on the first
\* call holds the results of that call alone.
C19_AppendsOnePerCompleted ==
    /\ Len(results) >= Len(NewResults)
    /\ LatestResults = NewResults
    /\ \A i \in DOMAIN NewResults :
          /\ NewResults[i].repo_name = repos[Completed[i].config].repo_path
          /\ \A j \in DOMAIN NewResults : i < j => Completed[i].config < Completed[j].config
    /\ calls <= 1 => results = NewResults
    /\ pc = "idle" => returned.value = results

\* A second run() call has returned: the list holds both calls' results.
C19_Witness ==
    /\ RunEnded /\ calls = 2
    /\ returned.by = "run"
    /\ Len(NewResults) = 2
    /\ Len(returned.value) = 4
    /\ SubSeq(returned.value, 3, 4) = NewResults

\* C20: every result record that get_results() or run() has returned carries
\* the fields repo_name and pass_rate.
C20_PassRateReadable ==
    \A i \in DOMAIN returned.value :
        {"repo_name", "pass_rate"} \subseteq DOMAIN returned.value[i]

\* --------------------------------------------- GitHub requests of one PR
\* The kinds of the requests issued for PR number n, in order.
KindsFor(n) ==
    LET own == SelectSeq(requests, LAMBDA r : r.kind # "pulls" /\ r.unit = n)
    IN  [i \in DOMAIN own |-> own[i].kind]

\* C21: GitHub per-PR request ordering. The requests of one merged PR are
\* the commit list, then check-runs, then the combined status, each at most
\* once and in that order; check-runs is requested only with a resolved
\* initial SHA; the combined status is requested only after a check-runs
\* step that yielded no entries or no result; and when check-runs returns
\* at least one entry there is no status request and the verdict holds
\* nothing but the check-runs that carried a conclusion.
C21_GithubRequestOrder ==
    /\ [](IsGithub =>
            /\ \A i \in DOMAIN prs :
                  KindsFor(prs[i].number) \in
                      {<<>>, <<"commits">>, <<"commits", "check-runs">>,
                       <<"commits", "check-runs", "status">>}
            /\ pc = "gh_check_runs" => initial_sha # NULL
            /\ pc = "gh_status" =>
                  /\ ~response.ok \/ response.json.check_runs = <<>>
                  /\ KindsFor(prs[idx].number) = <<"commits", "check-runs", "status">>
            /\ (pc = "gh_count" /\ LastRequest.kind = "check-runs") =>
                  /\ response.ok /\ response.json.check_runs # <<>>
                  /\ KindsFor(prs[idx].number) = <<"commits", "check-runs">>
                  /\ \A k \in DOMAIN details.checks :
                        /\ details.checks[k].name # "combined-status"
                        /\ \E j \in DOMAIN response.json.check_runs :
                              /\ response.json.check_runs[j].name = details.checks[k].name
                              /\ response.json.check_runs[j].conclusion
                                    = details.checks[k].conclusion)
    /\ [][(IsGithub /\ requests' # requests /\ pc # "start") =>
            /\ Len(requests') = Len(requests) + 1
            /\ LET new == requests'[Len(requests')]
               IN  /\ new.kind = "commits" => pc = "gh_loop"
                   /\ new.kind = "check-runs" =>
                         /\ LastRequest = Request("commits", new.unit)
                         /\ initial_sha # NULL
                   /\ new.kind = "status" =>
                         /\ LastRequest = Request("check-runs", new.unit)
                         /\ ~response'.ok \/ response'.json.check_runs = <<>>]_vars

\* The second merged PR is at its verdict after commit list, check-runs
\* without entries and combined status; the first stopped at check-runs.
C21_Witness ==
    /\ IsGithub /\ pc = "gh_count"
    /\ idx = 2
    /\ KindsFor(prs[1].number) = <<"commits", "check-runs">>
    /\ KindsFor(prs[2].number) = <<"commits", "check-runs", "status">>

\* ------------------------------------------------- completed check-runs
\* The state holds a verdict of the check-runs tier and its response.
AtCheckRunsVerdict == pc = "gh_count" /\ LastRequest.kind = "check-runs"

\* The returned check-runs that carry a conclusion, in the order returned.
CompletedRuns ==
    SelectSeq(response.json.check_runs, LAMBDA c : c.conclusion # NULL)

\* C22: the check-runs tier counts only completed checks. details.checks is
\* the returned check-runs that have a conclusion, details.total their
\* number; a check-run without a conclusion is neither passed nor failed;
\* so a commit whose completed check-runs all succeeded passes although
\* other check-runs have no conclusion yet.
C22_OnlyCompletedCounted ==
    AtCheckRunsVerdict =>
        /\ details.total = Len(CompletedRuns)
        /\ details.checks = CompletedRuns
        /\ details.passed =
              Cardinality({i \in DOMAIN CompletedRuns : CompletedRuns[i].conclusion = "success"})
        /\ details.failed =
              Cardinality({i \in DOMAIN CompletedRuns : CompletedRuns[i].conclusion # "success"})
        /\ (/\ CompletedRuns # <<>>
            /\ \A i \in DOMAIN CompletedRuns : CompletedRuns[i].conclusion = "success")
              => all_passed

\* One check-run succeeded, the other has no conclusion: the commit passes.
C22_Witness ==
    /\ AtCheckRunsVerdict
    /\ Len(response.json.check_runs) = 2
    /\ response.json.check_runs[1].conclusion = "success"
    /\ response.json.check_runs[2].conclusion = NULL
    /\ all_passed
    /\ details.total = 1

\* ------------------------------------------------------ the detail record
\* The outcomes a verdict's detail record lists: checks or jobs.
Listed == IF pc = "gh_count" THEN details.checks ELSE details.jobs

\* C23: detail-record consistency. Whichever way a verdict was returned
\* (check-runs, combined status, "No checks found", job list, "No jobs
\* found"), total = passed + failed = the length of the checks/jobs
\* sequence, and the sequence lists the outcomes in the order in which the
\* API returned them.
C23_DetailsConsistent ==
    pc \in {"gh_count", "gl_count"} =>
        /\ details.total = details.passed + details.failed
        /\ details.total = Len(Listed)
        /\ (pc = "gh_count" /\ LastRequest.kind = "check-runs") =>
              \E pick \in [1..Len(Listed) -> DOMAIN response.json.check_runs] :
                  /\ \A k \in 1..Len(Listed) :
                        Listed[k] = response.json.check_runs[pick[k]]
                  /\ \A k \in 1..(Len(Listed) - 1) : pick[k] < pick[k + 1]
        /\ (pc = "gh_count" /\ LastRequest.kind = "status") =>
              Listed \in {<<>>, <<[name |-> "combined-status",
                                   conclusion |-> IF response.json.state = ABSENT
                                                  THEN "unknown"
                                                  ELSE response.json.state]>>}
        /\ pc = "gl_count" =>
              Listed = [k \in DOMAIN response.json |->
                          [name |-> response.json[k].name,
                           status |-> response.json[k].status]]

\* Two jobs came back, the first succeeded and the second failed.
C23_Witness ==
    /\ pc = "gl_count"
    /\ Len(response.json) = 2
    /\ details.jobs = <<[name |-> "build", status |-> "success"],
                        [name |-> "test", status |-> "failed"]>>
    /\ details.total = 2 /\ details.passed = 1 /\ details.failed = 1

IsPrefix(short, long) ==
    /\ Len(short) <= Len(long)
    /\ SubSeq(long, 1, Len(short)) = short

\* C24: the result list is append-only over any sequence of run(),
\* get_results() and print_summary(): a step of run() either leaves the
\* list alone or adds exactly one record at its end, without removing,
\* reordering or rewriting an earlier one; get_results() and
\* print_summary() leave the list unchanged; so whatever was returned or
\* printed earlier is still the front of the list.
C24_AppendOnly ==
    /\ [](/\ IsPrefix(returned.value, results)
          /\ IsPrefix(printed.rows, [i \in DOMAIN results |-> SummaryRow(results[i])]))
    /\ [][/\ IsPrefix(results, results')
          /\ Len(results') <= Len(results) + 1
          /\ (pc = "idle" /\ pc' = "idle") => results' = results
          /\ pc' = "idle" => returned'.value = results'
          /\ results' # results =>
                /\ pc = "run_loop" /\ pc' = "run_loop"
                /\ results'[Len(results')] \in AdapterResults(repos[repo_idx])]_vars

\* A second run() has added records behind the ones a summary printed
\* after the first run() shows.
C24_Witness ==
    /\ calls = 2 /\ pc = "idle" /\ returned.by = "run"
    /\ Len(printed.rows) >= 1
    /\ Len(results) > Len(printed.rows)
    /\ printed.rows = [i \in 1..Len(printed.rows) |-> SummaryRow(results[i])]
====
